---------------------------- MODULE Spec2Model ----------------------------
(***************************************************************************)
(* A model of job_portal_credits.py: the credit-value extraction from page *)
(* text, the credits.json record log (load_entries / save_entries) and the *)
(* orchestrator (parse_args, collect, main).                               *)
(*                                                                         *)
(* Page text is a sequence of characters (one-character strings; the       *)
(* letter u with a ring is written "u_ring").  The file credits.json is a  *)
(* sequence of JSON tokens, the chunks json.dump writes one after another, *)
(* so that a write cut short is a proper prefix of a serialization and     *)
(* load_entries really parses what save_entries really wrote.              *)
(***************************************************************************)
EXTENDS Integers, Sequences, FiniteSets, TLC

\* ------------------------------------------------------------------------
\* Bounds of the model

\* page text: at most this many fragments of Frags, concatenated
MaxFrags == 3
\* records in the log before the first run
MaxPrior == 1
\* runs of main() in one behaviour
MaxRuns == 2

\* ------------------------------------------------------------------------
\* Characters and character classes (Python's re: \d, \s, \w, IGNORECASE)

DigitChars == <<"0", "1", "2", "3", "4", "5", "6", "7", "8", "9">>

IsDigit(c) == \E k \in 1..10 : DigitChars[k] = c

DigitVal(c) == (CHOOSE k \in 1..10 : DigitChars[k] = c) - 1

IsSpace(c) == c \in {" ", "\n", "\t"}

UpperChars == <<"C", "K", "S">>

LowerChars == <<"c", "k", "s">>

Lower(c) ==
    IF \E k \in 1..Len(UpperChars) : UpperChars[k] = c
    THEN LowerChars[CHOOSE k \in 1..Len(UpperChars) : UpperChars[k] = c]
    ELSE c

Letters ==
    {"a", "c", "d", "e", "i", "k", "r", "s", "t", "v", "x", "y", "u_ring",
     "C", "K", "S"}

\* \w: a letter, a digit (or the underscore)
IsWordChar(c) == IsDigit(c) \/ c \in Letters

CharAt(t, i) == IF i >= 1 /\ i <= Len(t) THEN t[i] ELSE "<none>"

\* \b at the position before t[i]
Boundary(t, i) == IsWordChar(CharAt(t, i - 1)) # IsWordChar(CharAt(t, i))

RECURSIVE SkipDigits(_, _)
\* \d+ is greedy: the first index from i on that holds no digit
SkipDigits(t, i) ==
    IF IsDigit(CharAt(t, i)) THEN SkipDigits(t, i + 1) ELSE i

RECURSIVE SkipSpaces(_, _)
\* \s* is greedy: the first index from i on that holds no whitespace
SkipSpaces(t, i) ==
    IF IsSpace(CharAt(t, i)) THEN SkipSpaces(t, i + 1) ELSE i

\* a literal of the pattern (in lower case) at position i, ignoring case
LitAt(t, i, lit) ==
    /\ i >= 1
    /\ i + Len(lit) - 1 <= Len(t)
    /\ \A k \in 1..Len(lit) : Lower(t[i + k - 1]) = lit[k]

RECURSIVE ToInt(_, _)
\* int(digits), the digits read left to right
ToInt(ds, acc) ==
    IF ds = <<>> THEN acc ELSE ToInt(Tail(ds), acc * 10 + DigitVal(Head(ds)))

Kredit == <<"k", "r", "e", "d", "i", "t">>

Credit == <<"c", "r", "e", "d", "i", "t">>

Kreditu == <<"k", "r", "e", "d", "i", "t", "u_ring">>

Stav == <<"s", "t", "a", "v">>

\* A match result: found(value) or not found
Found(v) == [ok |-> TRUE, val |-> v]

NotFound == [ok |-> FALSE, val |-> 0]

\* word_pattern at position i: the index after the matched word, 0 if none.
\*   (?:kredit(?:u_ring|y)?\b|credit(?:s)?\b)
WordEnd(t, i) ==
    IF LitAt(t, i, Kredit)
    THEN LET j == i + 6
         IN  IF CharAt(t, j) \in {"u_ring", "y"} /\ Boundary(t, j + 1) THEN j + 1
             ELSE IF Boundary(t, j) THEN j
             ELSE 0
    ELSE IF LitAt(t, i, Credit)
    THEN LET j == i + 6
         IN  IF Lower(CharAt(t, j)) = "s" /\ Boundary(t, j + 1) THEN j + 1
             ELSE IF Boundary(t, j) THEN j
             ELSE 0
    ELSE 0

\* The captured group (\d+) starting at i, as an integer
GroupAt(t, i) == ToInt(SubSeq(t, i, SkipDigits(t, i) - 1), 0)

\* One pattern tried at one start position i of the text
MatchAt(pat, t, i) ==
    CASE pat = "direct" ->
           \* (\d+)\s*word_pattern
           IF IsDigit(CharAt(t, i))
              /\ WordEnd(t, SkipSpaces(t, SkipDigits(t, i))) # 0
           THEN Found(GroupAt(t, i)) ELSE NotFound
      [] pat = "reverse" ->
           \* word_pattern\s*(\d+)
           LET e == WordEnd(t, i)
               k == SkipSpaces(t, e)
           IN  IF e # 0 /\ IsDigit(CharAt(t, k))
               THEN Found(GroupAt(t, k)) ELSE NotFound
      [] pat = "stav" ->
           \* Stav\s+kreditu_ring\s*:\s*(\d+)
           LET k == SkipSpaces(t, i + 4)
               l == SkipSpaces(t, k + 7)
               m == SkipSpaces(t, l + 1)
           IN  IF /\ LitAt(t, i, Stav)
                  /\ IsSpace(CharAt(t, i + 4))
                  /\ LitAt(t, k, Kreditu)
                  /\ CharAt(t, l) = ":"
                  /\ IsDigit(CharAt(t, m))
               THEN Found(GroupAt(t, m)) ELSE NotFound
      [] pat = "generic" ->
           \* \b(\d+)\s*kredit
           IF /\ IsDigit(CharAt(t, i))
              /\ Boundary(t, i)
              /\ LitAt(t, SkipSpaces(t, SkipDigits(t, i)), Kredit)
           THEN Found(GroupAt(t, i)) ELSE NotFound

RECURSIVE SearchFrom(_, _, _)
\* pattern.search(text): the match at the leftmost start position
SearchFrom(pat, t, i) ==
    IF i > Len(t) THEN NotFound
    ELSE LET m == MatchAt(pat, t, i)
         IN  IF m.ok THEN m ELSE SearchFrom(pat, t, i + 1)

Search(pat, t) == SearchFrom(pat, t, 1)


\* ------------------------------------------------------------------------
\* Extraction

\* Teamio, whole page: number before the unit word, else unit word before
\* the number, else the RuntimeError
TeamioWholePage_AnyNumber(body) ==
    IF \E i \in 1..Len(body) : IsDigit(body[i])
    THEN Found(GroupAt(body, CHOOSE i \in 1..Len(body) :
                   IsDigit(body[i]) /\ \A k \in 1..(i - 1) : ~IsDigit(body[k])))
    ELSE NotFound

TeamioWholePage(body) ==
    LET m1 == Search("direct", body)
        m2 == Search("reverse", body)
    IN  IF m1.ok THEN m1
        ELSE IF m2.ok THEN m2
        ELSE NotFound

\* "".join(ch for ch in text if ch.isdigit())
DigitsOf(text) == SelectSeq(text, IsDigit)

\* The locator TEAMIO_CREDITS_LOCATOR and what its element yields:
\* not configured, inner_text() raising, or the element's text
LocUnset == [kind |-> "unset", text |-> <<>>]

LocError == [kind |-> "error", text |-> <<>>]

LocText(t) == [kind |-> "text", text |-> t]

\* extract_teamio_credits_from_page
ExtractTeamio(loc, body) ==
    IF loc.kind = "text" /\ DigitsOf(loc.text) # <<>>
    THEN Found(ToInt(DigitsOf(loc.text), 0))
    ELSE TeamioWholePage(body)

INWORK_CREDITS_PATTERNS_Swapped == <<"generic", "stav">>

INWORK_CREDITS_PATTERNS == <<"stav", "generic">>

RECURSIVE FirstMatch(_, _)
\* for pat in patterns: m = pat.search(text); if m: return int(m.group(1))
FirstMatch(pats, text) ==
    IF pats = <<>> THEN NotFound
    ELSE LET m == Search(Head(pats), text)
         IN  IF m.ok THEN m ELSE FirstMatch(Tail(pats), text)

\* extract_inwork_credits_from_page
ExtractInwork(body) == FirstMatch(INWORK_CREDITS_PATTERNS, body)

\* ------------------------------------------------------------------------
\* Page texts of the model: concatenations of at most MaxFrags fragments

Frags ==
    { <<"3">>, <<" ">>, <<"x">>,
      <<"K", "r", "e", "d", "i", "t">>,
      <<"C", "r", "e", "d", "i", "t", "s">>,
      <<"k", "r", "e", "d", "i", "t", " ", "7", " ">>,
      <<"1", "2", " ", "k", "r", "e", "d", "i", "t", "u_ring", " ">>,
      <<"S", "t", "a", "v", " ", "k", "r", "e", "d", "i", "t", "u_ring",
        ":", " ", "2">> }

RECURSIVE TextsOf(_)
TextsOf(n) ==
    IF n = 0 THEN {<<>>}
    ELSE {t \o f : t \in TextsOf(n - 1), f \in Frags}

Texts == UNION {TextsOf(n) : n \in 0..MaxFrags}

Locators == {LocUnset, LocError, LocText(<<"x">>), LocText(<<"1", "x", "2">>)}

\* ------------------------------------------------------------------------
\* JSON values, their serialization (json.dump) and parsing (json.load)

\* Every value and every token has the same four fields, so that any two
\* can be compared.
Num(n) == [t |-> "num", n |-> n, s |-> "", f |-> <<>>]

Str(s) == [t |-> "str", n |-> 0, s |-> s, f |-> <<>>]

\* An object: its (key, scalar) pairs in order
Obj(fields) == [t |-> "obj", n |-> 0, s |-> "", f |-> fields]

\* Tokens: punctuation and object keys; a scalar is its own token
P(c) == [t |-> "p", n |-> 0, s |-> c, f |-> <<>>]

Key(k) == [t |-> "key", n |-> 0, s |-> k, f |-> <<>>]

IsScalar(v) == v.t \in {"num", "str"}

RECURSIVE DumpPairs(_)
DumpPairs(fields) ==
    IF fields = <<>> THEN <<>>
    ELSE <<Key(Head(fields)[1]), Head(fields)[2]>>
         \o (IF Len(fields) > 1 THEN <<P(",")>> ELSE <<>>)
         \o DumpPairs(Tail(fields))

DumpValue(v) ==
    IF v.t = "obj" THEN <<P("{")>> \o DumpPairs(v.f) \o <<P("}")>>
    ELSE <<v>>

RECURSIVE DumpElems(_)
DumpElems(es) ==
    IF es = <<>> THEN <<>>
    ELSE DumpValue(Head(es))
         \o (IF Len(es) > 1 THEN <<P(",")>> ELSE <<>>)
         \o DumpElems(Tail(es))

\* json.dump(entries, f, ...): the chunks written, in order
Dump(entries) == <<P("[")>> \o DumpElems(entries) \o <<P("]")>>

TokAt(toks, i) == IF i >= 1 /\ i <= Len(toks) THEN toks[i] ELSE P("<eof>")

ParseFail == [ok |-> FALSE, next |-> 0, val |-> Num(0), vals |-> <<>>]

RECURSIVE ParsePairs(_, _, _)
\* "key": scalar, then "," and more pairs, or "}"
ParsePairs(toks, i, acc) ==
    IF TokAt(toks, i).t = "key" /\ IsScalar(TokAt(toks, i + 1))
    THEN LET acc2 == Append(acc, <<TokAt(toks, i).s, TokAt(toks, i + 1)>>)
         IN  IF TokAt(toks, i + 2) = P(",") THEN ParsePairs(toks, i + 3, acc2)
             ELSE IF TokAt(toks, i + 2) = P("}")
             THEN [ok |-> TRUE, next |-> i + 3, val |-> Obj(acc2), vals |-> <<>>]
             ELSE ParseFail
    ELSE ParseFail

\* one value at position i: a scalar or an object
ParseValue(toks, i) ==
    IF IsScalar(TokAt(toks, i))
    THEN [ok |-> TRUE, next |-> i + 1, val |-> TokAt(toks, i), vals |-> <<>>]
    ELSE IF TokAt(toks, i) = P("{")
    THEN IF TokAt(toks, i + 1) = P("}")
         THEN [ok |-> TRUE, next |-> i + 2, val |-> Obj(<<>>), vals |-> <<>>]
         ELSE ParsePairs(toks, i + 1, <<>>)
    ELSE ParseFail

RECURSIVE ParseElems(_, _, _)
\* value, then "," and more values, or "]"
ParseElems(toks, i, acc) ==
    LET v == ParseValue(toks, i)
    IN  IF ~v.ok THEN ParseFail
        ELSE IF TokAt(toks, v.next) = P(",")
        THEN ParseElems(toks, v.next + 1, Append(acc, v.val))
        ELSE IF TokAt(toks, v.next) = P("]")
        THEN [ok |-> TRUE, next |-> v.next + 1, val |-> Num(0),
              vals |-> Append(acc, v.val)]
        ELSE ParseFail

\* json.load(f): ok (no JSONDecodeError: one value, nothing after it),
\* whether the value is a list, and the list
JsonLoad(toks) ==
    IF TokAt(toks, 1) = P("[")
    THEN LET r == IF TokAt(toks, 2) = P("]")
                  THEN [ok |-> TRUE, next |-> 3, val |-> Num(0), vals |-> <<>>]
                  ELSE ParseElems(toks, 2, <<>>)
         IN  [ok |-> r.ok /\ r.next = Len(toks) + 1, isList |-> TRUE,
              vals |-> r.vals]
    ELSE LET r == ParseValue(toks, 1)
         IN  [ok |-> r.ok /\ r.next = Len(toks) + 1, isList |-> FALSE,
              vals |-> <<>>]

\* ------------------------------------------------------------------------
\* credits.json

Absent == [exists |-> FALSE, content |-> <<>>]

FileOf(toks) == [exists |-> TRUE, content |-> toks]

\* load_entries
load_entries(f) ==
    IF ~f.exists THEN <<>>
    ELSE LET data == JsonLoad(f.content)
         IN  IF data.ok /\ data.isList THEN data.vals ELSE <<>>

\* datetime.isoformat() of the instant ts
IsoFormat(ts) == "T" \o ToString(ts)

\* The dict save_entries builds for one PortalCredits
Serialize(r) ==
    Obj(<< <<"timestamp", Str(IsoFormat(r.timestamp))>>,
           <<"portal", Str(r.portal)>>,
           <<"credits", Num(r.credits)>> >>)

RECURSIVE SerializeAll(_)
SerializeAll(rs) ==
    IF rs = <<>> THEN <<>> ELSE <<Serialize(Head(rs))>> \o SerializeAll(Tail(rs))

\* A reading record of the log: exactly timestamp, portal and credits
IsRecord(v) ==
    /\ v.t = "obj"
    /\ Len(v.f) = 3
    /\ {v.f[k][1] : k \in 1..3} = {"timestamp", "portal", "credits"}
    /\ \A k \in 1..3 :
         IF v.f[k][1] = "credits" THEN v.f[k][2].t = "num" /\ v.f[k][2].n >= 0
         ELSE v.f[k][2].t = "str"

\* The file holds a well-formed sequence of reading records
WellFormed(f) ==
    /\ f.exists
    /\ LET data == JsonLoad(f.content)
       IN  /\ data.ok
           /\ data.isList
           /\ \A k \in 1..Len(data.vals) : IsRecord(data.vals[k])

\* ------------------------------------------------------------------------
\* State

VARIABLES
    argv,       \* sys.argv of the current run
    pc,         \* where the run is: main, teamio, inwork, finish, save,
                \*   open, write, done, exit, interrupted
    portals,    \* what parse_args returned
    results,    \* collect's list of PortalCredits
    out,        \* what the run has printed, as message tags
    exitCode,   \* the process's exit status, -1 while it runs
    file,       \* credits.json
    profile,    \* TEAMIO_PROFILE_DIR.exists()
    entries,    \* save_entries' local list
    chunks,     \* the chunks json.dump has still to write
    attempts,   \* per portal, how many times its fetch was called this run
    outcome,    \* per portal, how its fetch ended this run
    saveCalls,  \* calls of save_entries this run
    file0,      \* the file as it was when the run started
    committed,  \* the file as the last completed save_entries left it
    runs,       \* runs started so far
    xbody,      \* extraction alone: the page's body text
    xloc,       \* extraction alone: the locator's element
    xteamio,    \* extraction alone: extract_teamio_credits_from_page's result
    xinwork,    \* extraction alone: extract_inwork_credits_from_page's result
    xdone       \* extraction alone: the extractors applied

runVars == <<argv, pc, portals, results, out, exitCode, file, profile,
             entries, chunks, attempts, outcome, saveCalls, file0, committed,
             runs>>

xVars == <<xbody, xloc, xteamio, xinwork, xdone>>

vars == <<argv, pc, portals, results, out, exitCode, file, profile,
          entries, chunks, attempts, outcome, saveCalls, file0, committed,
          runs, xbody, xloc, xteamio, xinwork, xdone>>

PortalNames == {"teamio", "inwork"}

\* Command lines: no argument, one known portal (in lower or upper case), an
\* unknown one, a known portal followed by a second argument
ArgvSet ==
    { <<"prog">>, <<"prog", "inwork">>,
      <<"prog", "TEAMIO">>, <<"prog", "bogus">>,
      <<"prog", "inwork", "bogus">> }

\* str.lower() on the arguments of ArgvSet
StrLower(a) == IF a = "TEAMIO" THEN "teamio" ELSE a

\* Records already in the log
PriorRecords ==
    { Obj(<< <<"timestamp", Str("T0")>>, <<"portal", Str("Teamio")>>,
             <<"credits", Num(5)>> >>) }

RECURSIVE PriorLogs(_)
PriorLogs(n) ==
    IF n = 0 THEN {<<>>}
    ELSE {Append(l, r) : l \in PriorLogs(n - 1), r \in PriorRecords}

\* The file before the first run: absent, a well-formed log, or not one
\* (empty, not a list, a list with an element that is no record)
WellFormedFiles ==
    {FileOf(Dump(l)) : l \in UNION {PriorLogs(n) : n \in 0..MaxPrior}}

MalformedFiles ==
    { FileOf(<<>>),
      FileOf(DumpValue(Obj(<< <<"portal", Str("Teamio")>> >>))),
      FileOf(Dump(<<Num(1)>>)) }

File0Set == {Absent} \cup WellFormedFiles \cup MalformedFiles

\* Pages the portals show during a run, and the locator's element
OrchPages ==
    { <<"1", "2", " ", "k", "r", "e", "d", "i", "t", "u_ring">>,
      <<"x">> }

OrchLocators == {LocUnset, LocError}

NoAttempts == [p \in PortalNames |-> 0]

NoOutcome == [p \in PortalNames |-> "none"]

XIdle ==
    /\ xbody = <<>>
    /\ xloc = LocUnset
    /\ xteamio = NotFound
    /\ xinwork = NotFound
    /\ xdone = {}

Init ==
    /\ argv \in ArgvSet
    /\ pc = "main"
    /\ portals = <<>>
    /\ results = <<>>
    /\ out = <<>>
    /\ exitCode = -1
    /\ file \in File0Set
    /\ profile \in BOOLEAN
    /\ entries = <<>>
    /\ chunks = <<>>
    /\ attempts = NoAttempts
    /\ outcome = NoOutcome
    /\ saveCalls = 0
    /\ file0 = file
    /\ committed = file
    /\ runs = 1
    /\ XIdle

\* ------------------------------------------------------------------------
\* parse_args and main

\* parse_args: the portals, or sys.exit(1) after the usage message
ParseArgs ==
    /\ pc = "main"
    /\ IF Len(argv) <= 1
       THEN /\ portals' = <<"teamio", "inwork">>
            /\ pc' = "teamio"
            /\ UNCHANGED <<out, exitCode>>
       ELSE IF StrLower(argv[2]) = "teamio"
       THEN /\ portals' = <<"teamio">>
            /\ pc' = "teamio"
            /\ UNCHANGED <<out, exitCode>>
       ELSE IF StrLower(argv[2]) = "inwork"
       THEN /\ portals' = <<"inwork">>
            /\ pc' = "teamio"
            /\ UNCHANGED <<out, exitCode>>
       ELSE /\ out' = Append(out, "usage")
            /\ exitCode' = 1
            /\ pc' = "exit"
            /\ UNCHANGED portals
    /\ UNCHANGED <<argv, results, file, profile, entries, chunks,
                   attempts, outcome, saveCalls, file0, committed, runs>>
    /\ UNCHANGED xVars

Requested(p) == \E k \in 1..Len(portals) : portals[k] = p

\* ------------------------------------------------------------------------
\* collect: one portal after the other, then the save

\* datetime.now(timezone.utc) when a fetch returns: the instants of a
\* behaviour increase from one reading to the next and from run to run
Now == Cardinality(PortalNames) * (runs - 1) + Len(results) + 1

\* fetch_* returned: results.append(res), and on to the next step
PortalSucceeded_ReturnsEarly(p, name, v, next) ==
    /\ attempts' = [attempts EXCEPT ![p] = @ + 1]
    /\ outcome' = [outcome EXCEPT ![p] = "ok"]
    /\ results' = Append(results,
                         [portal |-> name, credits |-> v, timestamp |-> Now])
    /\ pc' = "finish"
    /\ UNCHANGED <<out, exitCode>>

PortalSucceeded(p, name, v, next) ==
    /\ attempts' = [attempts EXCEPT ![p] = @ + 1]
    /\ outcome' = [outcome EXCEPT ![p] = "ok"]
    /\ results' = Append(results,
                         [portal |-> name, credits |-> v, timestamp |-> Now])
    /\ pc' = next
    /\ UNCHANGED <<out, exitCode>>

\* fetch_* raised: except Exception prints the error, and on to the next step
PortalFailed_Aborts(p, next) ==
    /\ attempts' = [attempts EXCEPT ![p] = @ + 1]
    /\ outcome' = [outcome EXCEPT ![p] = "failed"]
    /\ out' = Append(out, p)
    /\ exitCode' = 1
    /\ pc' = "exit"
    /\ UNCHANGED results

PortalFailed(p, next) ==
    /\ attempts' = [attempts EXCEPT ![p] = @ + 1]
    /\ outcome' = [outcome EXCEPT ![p] = "failed"]
    /\ out' = Append(out, p)
    /\ pc' = next
    /\ UNCHANGED <<results, exitCode>>

\* if "teamio" in portals: try: fetch_teamio_credits() ...
TeamioStep ==
    /\ pc = "teamio"
    /\ \/ /\ ~Requested("teamio")
          /\ pc' = "inwork"
          /\ UNCHANGED <<results, out, exitCode, attempts, outcome>>
       \/ \* the profile directory is missing: RuntimeError
          /\ Requested("teamio")
          /\ ~profile
          /\ PortalFailed("teamio", "inwork")
       \/ \* the browser session fails (launch, goto, inner_text, input)
          /\ Requested("teamio")
          /\ profile
          /\ PortalFailed("teamio", "inwork")
       \/ \* the page is read and the number extracted, or not found
          /\ Requested("teamio")
          /\ profile
          /\ \E loc \in OrchLocators, body \in OrchPages :
               LET res == ExtractTeamio(loc, body)
               IN  IF res.ok
                   THEN PortalSucceeded("teamio", "Teamio", res.val, "inwork")
                   ELSE PortalFailed("teamio", "inwork")
    /\ UNCHANGED <<argv, portals, file, profile, entries, chunks, saveCalls,
                   file0, committed, runs>>
    /\ UNCHANGED xVars

\* if "inwork" in portals: try: fetch_inwork_credits() ...
InworkStep ==
    /\ pc = "inwork"
    /\ \/ /\ ~Requested("inwork")
          /\ pc' = "finish"
          /\ UNCHANGED <<results, out, exitCode, attempts, outcome>>
       \/ \* the browser session fails
          /\ Requested("inwork")
          /\ PortalFailed("inwork", "finish")
       \/ \* the page is read and the number extracted, or not found
          /\ Requested("inwork")
          /\ \E body \in OrchPages :
               LET res == ExtractInwork(body)
               IN  IF res.ok
                   THEN PortalSucceeded("inwork", "InWork", res.val, "finish")
                   ELSE PortalFailed("inwork", "finish")
    /\ UNCHANGED <<argv, portals, file, profile, entries, chunks, saveCalls,
                   file0, committed, runs>>
    /\ UNCHANGED xVars

\* if not results: print, return; else save_entries(results, CREDITS_FILE)
CollectFinish_AlwaysSaves ==
    /\ pc = "finish"
    /\ saveCalls' = saveCalls + 1
    /\ pc' = "save"
    /\ UNCHANGED <<out, exitCode>>
    /\ UNCHANGED <<argv, portals, results, file, profile, entries,
                   chunks, attempts, outcome, file0, committed, runs>>
    /\ UNCHANGED xVars

CollectFinish ==
    /\ pc = "finish"
    /\ \/ /\ results = <<>>
          /\ out' = Append(out, "nothing")
          /\ exitCode' = 0
          /\ pc' = "done"
          /\ UNCHANGED saveCalls
       \/ /\ results # <<>>
          /\ saveCalls' = saveCalls + 1
          /\ pc' = "save"
          /\ UNCHANGED <<out, exitCode>>
    /\ UNCHANGED <<argv, portals, results, file, profile, entries,
                   chunks, attempts, outcome, file0, committed, runs>>
    /\ UNCHANGED xVars

\* save_entries: entries = load_entries(filepath), then the appends
SaveLoad_DropsPrior ==
    /\ pc = "save"
    /\ entries' = SerializeAll(results)
    /\ pc' = "open"
    /\ UNCHANGED <<argv, portals, results, out, exitCode, file, profile,
                   chunks, attempts, outcome, saveCalls, file0,
                   committed, runs>>
    /\ UNCHANGED xVars

SaveLoad ==
    /\ pc = "save"
    /\ entries' = load_entries(file) \o SerializeAll(results)
    /\ pc' = "open"
    /\ UNCHANGED <<argv, portals, results, out, exitCode, file, profile,
                   chunks, attempts, outcome, saveCalls, file0,
                   committed, runs>>
    /\ UNCHANGED xVars

\* save_entries: filepath.open("w") creates or truncates the file
SaveOpen ==
    /\ pc = "open"
    /\ file' = FileOf(<<>>)
    /\ chunks' = Dump(entries)
    /\ pc' = "write"
    /\ UNCHANGED <<argv, portals, results, out, exitCode, profile,
                   entries, attempts, outcome, saveCalls, file0, committed,
                   runs>>
    /\ UNCHANGED xVars

\* save_entries: json.dump writes the next chunk
SaveWrite ==
    /\ pc = "write"
    /\ chunks # <<>>
    /\ file' = FileOf(Append(file.content, Head(chunks)))
    /\ chunks' = Tail(chunks)
    /\ UNCHANGED <<argv, pc, portals, results, out, exitCode, profile,
                   entries, attempts, outcome, saveCalls, file0, committed,
                   runs>>
    /\ UNCHANGED xVars

\* save_entries returns, collect prints the count and returns
SaveClose ==
    /\ pc = "write"
    /\ chunks = <<>>
    /\ committed' = file
    /\ out' = Append(out, "saved")
    /\ exitCode' = 0
    /\ pc' = "done"
    /\ UNCHANGED <<argv, portals, results, file, profile, entries,
                   chunks, attempts, outcome, saveCalls, file0, runs>>
    /\ UNCHANGED xVars

InCollect == pc \in {"teamio", "inwork", "finish", "save", "open", "write"}

\* The operator interrupts asyncio.run(collect(...)): KeyboardInterrupt is
\* raised at whatever step collect is at, the with block closes the file as
\* written so far, and main prints and returns
Interrupt ==
    /\ InCollect
    /\ out' = Append(out, "interrupted")
    /\ exitCode' = 0
    /\ pc' = "interrupted"
    /\ UNCHANGED <<argv, portals, results, file, profile, entries,
                   chunks, attempts, outcome, saveCalls, file0, committed,
                   runs>>
    /\ UNCHANGED xVars

Ended == pc \in {"done", "exit", "interrupted"}

\* The script is started again, on the file as the last run left it and
\* with the profile directory as it was
Restart ==
    /\ Ended
    /\ runs < MaxRuns
    /\ runs' = runs + 1
    /\ argv' \in ArgvSet
    /\ UNCHANGED profile
    /\ pc' = "main"
    /\ portals' = <<>>
    /\ results' = <<>>
    /\ out' = <<>>
    /\ exitCode' = -1
    /\ entries' = <<>>
    /\ chunks' = <<>>
    /\ attempts' = NoAttempts
    /\ outcome' = NoOutcome
    /\ saveCalls' = 0
    /\ file0' = file
    /\ UNCHANGED <<file, committed>>
    /\ UNCHANGED xVars

Next ==
    \/ ParseArgs
    \/ TeamioStep
    \/ InworkStep
    \/ CollectFinish
    \/ SaveLoad
    \/ SaveOpen
    \/ SaveWrite
    \/ SaveClose
    \/ Interrupt
    \/ Restart

Spec == Init /\ [][Next]_vars

\* ------------------------------------------------------------------------
\* The extractors alone, on every page text of the bounds

RunIdle ==
    /\ argv = <<"prog">>
    /\ pc = "extract"
    /\ portals = <<>>
    /\ results = <<>>
    /\ out = <<>>
    /\ exitCode = -1
    /\ file = Absent
    /\ profile = TRUE
    /\ entries = <<>>
    /\ chunks = <<>>
    /\ attempts = NoAttempts
    /\ outcome = NoOutcome
    /\ saveCalls = 0
    /\ file0 = Absent
    /\ committed = Absent
    /\ runs = 1

InitX ==
    /\ RunIdle
    /\ xbody \in Texts
    /\ xloc \in Locators
    /\ xteamio = NotFound
    /\ xinwork = NotFound
    /\ xdone = {}

XExtractTeamio ==
    /\ "teamio" \notin xdone
    /\ xteamio' = ExtractTeamio(xloc, xbody)
    /\ xdone' = xdone \cup {"teamio"}
    /\ UNCHANGED <<xbody, xloc, xinwork>>
    /\ UNCHANGED runVars

XExtractInwork ==
    /\ "inwork" \notin xdone
    /\ xinwork' = ExtractInwork(xbody)
    /\ xdone' = xdone \cup {"inwork"}
    /\ UNCHANGED <<xbody, xloc, xteamio>>
    /\ UNCHANGED runVars

NextX ==
    \/ XExtractTeamio
    \/ XExtractInwork

SpecExtract == InitX /\ [][NextX]_vars

\* ------------------------------------------------------------------------
\* Properties of the record log and of the orchestrator (under Spec)

IsPrefix(a, b) == Len(a) <= Len(b) /\ SubSeq(b, 1, Len(a)) = a

Count(seq, x) == Cardinality({k \in 1..Len(seq) : seq[k] = x})

\* The name a portal's readings carry
ReadingName(p) == IF p = "teamio" THEN "Teamio" ELSE "InWork"

AfterPortals == pc \in {"finish", "save", "open", "write", "done"}

\* C1: a completed save_entries(R) on a log that loads as L leaves a log
\* that loads as L followed by the serialized R, in order; so what was
\* loaded before the append is a prefix of what is loaded after it, the
\* result parses as a list, and a well-formed log stays well-formed.
C1_AppendConcatenates ==
    (pc = "done" /\ saveCalls = 1) =>
        /\ load_entries(file) = load_entries(file0) \o SerializeAll(results)
        /\ IsPrefix(load_entries(file0), load_entries(file))
        /\ JsonLoad(file.content).ok /\ JsonLoad(file.content).isList
        /\ (WellFormed(file0) => WellFormed(file))

\* a second append in a row completed, on a well-formed log of two records
C1_Witness ==
    /\ pc = "done"
    /\ saveCalls = 1
    /\ runs = 2
    /\ WellFormed(file0)
    /\ Len(load_entries(file0)) = 2
    /\ Len(results) = 2
    /\ Len(load_entries(file)) = 4

\* C2: when the run is cancelled, at any step, with a well-formed log of at
\* least one record in place (as the last completed append left it, or as it
\* was before any append), the file is still that log: no truncated or
\* partially written file is left behind, and no history is lost.
C2_CancelLeavesLastAppend ==
    (pc = "interrupted" /\ WellFormed(committed)
       /\ load_entries(committed) # <<>>) => file = committed

\* C3: every requested portal is attempted exactly once and no other is;
\* a failed portal is reported once and the run goes on to the next portal;
\* only the usage error ends the process with an error.
C3_PortalIsolation ==
    /\ \A p \in PortalNames :
         /\ attempts[p] <= 1
         /\ (attempts[p] = 1 => Requested(p))
         /\ Count(out, p) = (IF outcome[p] = "failed" THEN 1 ELSE 0)
    /\ (AfterPortals => \A p \in PortalNames : Requested(p) => attempts[p] = 1)
    /\ ((outcome["teamio"] = "failed" /\ Requested("inwork")
           /\ attempts["inwork"] = 0) => pc \in {"inwork", "interrupted"})
    /\ (pc = "exit" => out = <<"usage">> /\ attempts = NoAttempts)
    /\ (exitCode = 1 => pc = "exit")

\* Teamio failed for want of its profile, and InWork was still collected
C3_Witness ==
    /\ pc = "done"
    /\ ~profile
    /\ outcome["teamio"] = "failed"
    /\ attempts["inwork"] = 1
    /\ outcome["inwork"] = "ok"
    /\ out = <<"teamio", "saved">>

\* C4: the readings collected are exactly those of the portals that
\* succeeded; save_entries is called at most once, only with a reading and
\* only after every requested portal was attempted; a completed run with a
\* reading has appended exactly its readings; with two portals, one
\* succeeding and one failing, the log grows by one record and one failure
\* is reported.
C4_SuccessesSavedOnce ==
    /\ saveCalls <= 1
    /\ Len(results) = Cardinality({p \in PortalNames : outcome[p] = "ok"})
    /\ \A p \in PortalNames :
         (outcome[p] = "ok") <=>
             (\E k \in 1..Len(results) : results[k].portal = ReadingName(p))
    /\ (saveCalls = 1 =>
          /\ results # <<>>
          /\ \A p \in PortalNames : Requested(p) => attempts[p] = 1)
    /\ ((pc = "done" /\ results # <<>>) =>
          /\ saveCalls = 1
          /\ Len(load_entries(file)) = Len(load_entries(file0)) + Len(results)
          /\ SubSeq(load_entries(file), Len(load_entries(file0)) + 1,
                    Len(load_entries(file))) = SerializeAll(results))
    /\ ((pc = "done" /\ Len(portals) = 2
           /\ Cardinality({p \in PortalNames : outcome[p] = "ok"}) = 1
           /\ Cardinality({p \in PortalNames : outcome[p] = "failed"}) = 1) =>
          /\ Len(load_entries(file)) = Len(load_entries(file0)) + 1
          /\ Count(out, "teamio") + Count(out, "inwork") = 1)

\* both portals requested, Teamio read, InWork failed, one record appended
C4_Witness ==
    /\ pc = "done"
    /\ Len(portals) = 2
    /\ outcome["teamio"] = "ok"
    /\ outcome["inwork"] = "failed"
    /\ saveCalls = 1
    /\ Len(load_entries(file0)) = 1
    /\ Len(load_entries(file)) = 2

\* C5: while a run has no reading, save_entries has not been called and the
\* file is exactly as it was when the run started; such a run ends saying
\* "nothing to save", without an error.
C5_NothingToSave ==
    /\ (results = <<>> => saveCalls = 0 /\ file = file0)
    /\ ((pc = "done" /\ results = <<>>) =>
          /\ out # <<>>
          /\ out[Len(out)] = "nothing"
          /\ Count(out, "saved") = 0
          /\ exitCode = 0)

\* both portals attempted and failed, on a file that is present and is not
\* a well-formed log
C5_Witness ==
    /\ pc = "done"
    /\ results = <<>>
    /\ attempts["teamio"] = 1
    /\ attempts["inwork"] = 1
    /\ file.exists
    /\ ~WellFormed(file)
    /\ file = file0

\* C6: load_entries returns the empty sequence for every file that is not a
\* well-formed sequence of reading records; stated where save_entries has
\* just called it.
C6_MalformedLoadsEmpty ==
    (pc = "open" /\ ~WellFormed(file)) => entries = SerializeAll(results)

\* An argument list parse_args is to accept: no argument, or exactly one
\* that names a known portal
ValidArgs(a) ==
    \/ Len(a) <= 1
    \/ Len(a) = 2 /\ StrLower(a[2]) \in PortalNames

\* C8: for every other argument list the process has ended with status 1
\* once parse_args has run, no portal was attempted and the log is untouched.
C8_OtherArgsAreUsageErrors ==
    (pc # "main" /\ ~ValidArgs(argv)) =>
        /\ pc = "exit"
        /\ exitCode = 1
        /\ attempts = NoAttempts
        /\ file = file0

\* C10: a completed append on a file that exists and is not well-formed
\* leaves a well-formed file that loads as exactly the new records.
C10_CorruptStoreRecovered ==
    (pc = "done" /\ saveCalls = 1 /\ file0.exists /\ ~WellFormed(file0)) =>
        /\ WellFormed(file)
        /\ load_entries(file) = SerializeAll(results)

\* ------------------------------------------------------------------------
\* Properties of the extractors (under SpecExtract)

UnitWords ==
    { <<"k", "r", "e", "d", "i", "t">>,
      <<"k", "r", "e", "d", "i", "t", "y">>,
      <<"k", "r", "e", "d", "i", "t", "u_ring">>,
      <<"c", "r", "e", "d", "i", "t">>,
      <<"c", "r", "e", "d", "i", "t", "s">> }

\* a digit ends right before position a, up to whitespace
DigitBefore(t, a) ==
    \E k \in 1..(a - 1) :
        IsDigit(t[k]) /\ \A m \in (k + 1)..(a - 1) : IsSpace(t[m])

\* a digit starts at position b or after it, up to whitespace
DigitAfter(t, b) ==
    \E k \in b..Len(t) :
        IsDigit(t[k]) /\ \A m \in b..(k - 1) : IsSpace(t[m])

\* Some digit sequence is adjacent, up to whitespace, to an occurrence of a
\* unit word (in any letter case)
Near(t) ==
    \E a \in 1..Len(t) : \E w \in UnitWords :
        LitAt(t, a, w) /\ (DigitBefore(t, a) \/ DigitAfter(t, a + Len(w)))

\* The text holds the InWork literal: Stav, whitespace, kreditu_ring, a colon
\* and a digit, with optional whitespace around the colon
HasStavLiteral(t) ==
    \E i \in 1..Len(t) :
        /\ LitAt(t, i, Stav)
        /\ \E k \in (i + 5)..Len(t) :
             /\ \A m \in (i + 4)..(k - 1) : IsSpace(t[m])
             /\ LitAt(t, k, Kreditu)
             /\ \E l \in (k + 7)..Len(t) :
                  /\ \A m \in (k + 7)..(l - 1) : IsSpace(t[m])
                  /\ t[l] = ":"
                  /\ DigitAfter(t, l + 1)

HasDigit(t) == \E k \in 1..Len(t) : IsDigit(t[k])

\* The locator's element was read and its text holds a digit
LocatorDecides(loc) == loc.kind = "text" /\ HasDigit(loc.text)

\* C7 as stated: with no digit sequence adjacent to a unit word, each
\* extractor fails, the Teamio one also when a locator is configured.
C7_NoUnitWordNoValue ==
    ~Near(xbody) =>
        /\ ("teamio" \in xdone => ~xteamio.ok)
        /\ ("inwork" \in xdone => ~xinwork.ok)

\* C7 as amended: with no digit sequence adjacent to a unit word, the Teamio
\* extractor fails unless the locator's element holds a digit, and then it
\* returns that element's digits; the InWork extractor fails unless the text
\* holds the literal 'Stav kreditu_ring: N'.
C7_NoUnitWordNoValueAmended ==
    /\ ("teamio" \in xdone /\ ~Near(xbody) /\ ~LocatorDecides(xloc))
          => ~xteamio.ok
    /\ ("teamio" \in xdone /\ LocatorDecides(xloc))
          => xteamio = Found(ToInt(DigitsOf(xloc.text), 0))
    /\ ("inwork" \in xdone /\ ~Near(xbody) /\ ~HasStavLiteral(xbody))
          => ~xinwork.ok

\* a page with a number and a unit word that are not adjacent, a locator
\* whose element holds no digit: both extractors fail
C7_Witness ==
    /\ xdone = {"teamio", "inwork"}
    /\ HasDigit(xbody)
    /\ \E a \in 1..Len(xbody) : \E w \in UnitWords : LitAt(xbody, a, w)
    /\ ~Near(xbody)
    /\ xloc = LocText(<<"x">>)
    /\ ~xteamio.ok
    /\ ~xinwork.ok

\* The start positions at which a pattern matches
Starts(pat, t) == {i \in 1..Len(t) : MatchAt(pat, t, i).ok}

MinOf(S) == CHOOSE x \in S : \A y \in S : x <= y

\* The leftmost match of the first pattern of the list that matches at all
ByPriority(pats, t) ==
    LET starts == [j \in 1..Len(pats) |-> Starts(pats[j], t)]
    IN  IF \A j \in 1..Len(pats) : starts[j] = {} THEN NotFound
        ELSE LET k == MinOf({j \in 1..Len(pats) : starts[j] # {}})
             IN  MatchAt(pats[k], t, MinOf(starts[k]))

\* C9: whole-page extraction returns the leftmost match of the pattern of
\* highest priority that matches anywhere: for InWork 'Stav kreditu_ring: N'
\* before 'N kredit', for Teamio number-before-word before
\* word-before-number; a later pattern decides only when every earlier one
\* matches nowhere.
C9_PriorityNotPosition ==
    /\ "inwork" \in xdone => xinwork = ByPriority(<<"stav", "generic">>, xbody)
    /\ ("teamio" \in xdone /\ ~LocatorDecides(xloc))
          => xteamio = ByPriority(<<"direct", "reverse">>, xbody)

\* one page where, for each portal, the pattern of lower priority matches
\* earlier in the text and with another number, and the higher one decides
C9_Witness ==
    /\ xdone = {"teamio", "inwork"}
    /\ xloc = LocUnset
    /\ Starts("stav", xbody) # {}
    /\ Starts("generic", xbody) # {}
    /\ MinOf(Starts("generic", xbody)) < MinOf(Starts("stav", xbody))
    /\ Search("generic", xbody).val # Search("stav", xbody).val
    /\ xinwork = Search("stav", xbody)
    /\ Starts("direct", xbody) # {}
    /\ Starts("reverse", xbody) # {}
    /\ MinOf(Starts("reverse", xbody)) < MinOf(Starts("direct", xbody))
    /\ Search("reverse", xbody).val # Search("direct", xbody).val
    /\ xteamio = Search("direct", xbody)

=============================================================================
